---------------------------- MODULE Spec2Model ----------------------------
(***************************************************************************)
(* GPXParser (src/src/index.ts): a GPX document is parsed by the           *)
(* constructor into metadata, waypoints, routes and tracks, and toGeoJSON  *)
(* projects that model to a GeoJSON FeatureCollection.                     *)
(*                                                                         *)
(* Representation.                                                         *)
(*  - A JavaScript value is a record [k, n, d, s]: k is its kind, n/d a    *)
(*    rational in lowest terms (numbers), s a text (strings).  Arithmetic  *)
(*    is exact: IEEE rounding is not modelled, NaN and the infinities are. *)
(*  - A text is a sequence of one-character strings, so that parseFloat    *)
(*    is computed character by character.                                  *)
(*  - A DOM element is a record [tag, attrs, kids, text]; the input string *)
(*    is identified with the tree a conforming XML parser builds from it,  *)
(*    or is Malformed.                                                     *)
(***************************************************************************)
EXTENDS Integers, Sequences, FiniteSets, TLC

(***************************************************************************)
(* JavaScript values                                                       *)
(***************************************************************************)
RECURSIVE GCD(_, _)
GCD(a, b) == IF b = 0 THEN a ELSE GCD(b, a % b)

AbsInt(i) == IF i < 0 THEN -i ELSE i

\* F(e), with e evaluated once however often F uses its argument.
Let(e, F(_)) == CHOOSE r \in {F(x) : x \in {e}} : TRUE

Null == [k |-> "null", n |-> 0, d |-> 1, s |-> <<>>]
NaN == [k |-> "NaN", n |-> 0, d |-> 1, s |-> <<>>]
PosInf == [k |-> "Infinity", n |-> 1, d |-> 1, s |-> <<>>]
NegInf == [k |-> "Infinity", n |-> -1, d |-> 1, s |-> <<>>]
Str(t) == [k |-> "string", n |-> 0, d |-> 1, s |-> t]

\* The number n/d (d # 0), in lowest terms with a positive denominator.
Num(n, d) ==
  LET g == GCD(AbsInt(n), AbsInt(d))
      sg == IF d < 0 THEN -1 ELSE 1
  IN [k |-> "number", n |-> sg * (n \div g), d |-> sg * (d \div g), s |-> <<>>]

Zero == Num(0, 1)

\* ToBoolean: null, "", 0 and NaN are falsy.
Falsy(v) ==
  \/ v.k = "null"
  \/ v.k = "NaN"
  \/ v.k = "string" /\ v.s = <<>>
  \/ v.k = "number" /\ v.n = 0

\* a || b
Or(a, b) == IF Falsy(a) THEN b ELSE a

Neg(a) ==
  CASE a.k = "number" -> Num(-a.n, a.d)
    [] a.k = "Infinity" -> [a EXCEPT !.n = -a.n]
    [] OTHER -> NaN

\* a + b
Add(a, b) ==
  CASE a.k = "NaN" \/ b.k = "NaN" -> NaN
    [] a.k = "number" /\ b.k = "number" -> Num(a.n * b.d + b.n * a.d, a.d * b.d)
    [] a.k = "Infinity" /\ b.k = "Infinity" -> IF a.n = b.n THEN a ELSE NaN
    [] a.k = "Infinity" -> a
    [] OTHER -> b

\* a - b
Sub(a, b) == Add(a, Neg(b))

Sign(a) == IF a.n > 0 THEN 1 ELSE IF a.n < 0 THEN -1 ELSE 0

\* a * b
Mul(a, b) ==
  CASE a.k = "NaN" \/ b.k = "NaN" -> NaN
    [] a.k = "number" /\ b.k = "number" -> Num(a.n * b.n, a.d * b.d)
    [] Sign(a) * Sign(b) = 0 -> NaN
    [] Sign(a) * Sign(b) > 0 -> PosInf
    [] OTHER -> NegInf

\* a / b (a zero divisor is +0: the model has no -0)
Div(a, b) ==
  CASE a.k = "NaN" \/ b.k = "NaN" -> NaN
    [] a.k = "number" /\ b.k = "number" ->
         IF b.n # 0 THEN Num(a.n * b.d, a.d * b.n)
         ELSE IF a.n = 0 THEN NaN
         ELSE IF a.n > 0 THEN PosInf ELSE NegInf
    [] a.k = "Infinity" /\ b.k = "Infinity" -> NaN
    [] a.k = "Infinity" -> IF Sign(a) * (IF b.n < 0 THEN -1 ELSE 1) > 0
                           THEN PosInf ELSE NegInf
    [] OTHER -> Zero

\* a < b (false when either is NaN)
Lt(a, b) ==
  CASE a.k = "NaN" \/ b.k = "NaN" -> FALSE
    [] a.k = "number" /\ b.k = "number" -> a.n * b.d < b.n * a.d
    [] a.k = "Infinity" /\ b.k = "Infinity" -> a.n < b.n
    [] a.k = "Infinity" -> a.n < 0
    [] OTHER -> b.n > 0

\* Math.abs
MathAbs(a) ==
  CASE a.k = "number" -> Num(AbsInt(a.n), a.d)
    [] a.k = "Infinity" -> PosInf
    [] OTHER -> NaN

\* Math.max.apply(null, xs): -Infinity for the empty list, NaN if any is NaN.
RECURSIVE MathMax(_)
MathMax(xs) ==
  IF xs = <<>> THEN NegInf
  ELSE LET m == MathMax(Tail(xs))
           x == Head(xs)
       IN IF x.k = "NaN" \/ m.k = "NaN" THEN NaN
          ELSE IF Lt(m, x) THEN x ELSE m

\* Math.min.apply(null, xs): +Infinity for the empty list.
RECURSIVE MathMin(_)
MathMin(xs) ==
  IF xs = <<>> THEN PosInf
  ELSE LET m == MathMin(Tail(xs))
           x == Head(xs)
       IN IF x.k = "NaN" \/ m.k = "NaN" THEN NaN
          ELSE IF Lt(x, m) THEN x ELSE m

\* isNaN(v) for a number v
isNaN(v) == v.k = "NaN"

(***************************************************************************)
(* Texts and parseFloat                                                    *)
(***************************************************************************)
Digits == {"0", "1", "2", "3", "4", "5", "6", "7", "8", "9"}

DigitVal(c) ==
  CASE c = "0" -> 0 [] c = "1" -> 1 [] c = "2" -> 2 [] c = "3" -> 3
    [] c = "4" -> 4 [] c = "5" -> 5 [] c = "6" -> 6 [] c = "7" -> 7
    [] c = "8" -> 8 [] c = "9" -> 9

RECURSIVE Pow10(_)
Pow10(e) == IF e = 0 THEN 1 ELSE 10 * Pow10(e - 1)

RECURSIVE SkipWs(_)
SkipWs(t) == IF t # <<>> /\ Head(t) = " " THEN SkipWs(Tail(t)) ELSE t

\* Length of the longest prefix of t made of decimal digits.
RECURSIVE NumDigits(_)
NumDigits(t) ==
  IF t # <<>> /\ Head(t) \in Digits THEN 1 + NumDigits(Tail(t)) ELSE 0

\* Value of a sequence of decimal digits (0 for the empty one).
RECURSIVE DigitsVal(_)
DigitsVal(t) ==
  IF t = <<>> THEN 0
  ELSE 10 * DigitsVal(SubSeq(t, 1, Len(t) - 1)) + DigitVal(t[Len(t)])

\* parseFloat(t) on texts without exponent and without "Infinity": leading
\* white space is skipped, the longest prefix sign digits [. digits] is
\* converted, whatever follows is ignored; NaN when that prefix has no digit.
StrDecimalLiteral(u) ==
  LET signed == u # <<>> /\ Head(u) \in {"-", "+"}
      sg == IF signed /\ Head(u) = "-" THEN -1 ELSE 1
      v == IF signed THEN Tail(u) ELSE u
      ni == NumDigits(v)
      rest == SubSeq(v, ni + 1, Len(v))
      dot == rest # <<>> /\ Head(rest) = "."
      nf == IF dot THEN NumDigits(Tail(rest)) ELSE 0
      ip == SubSeq(v, 1, ni)
      fp == IF dot THEN SubSeq(Tail(rest), 1, nf) ELSE <<>>
  IN IF ni + nf = 0 THEN NaN
     ELSE Num(sg * (DigitsVal(ip) * Pow10(nf) + DigitsVal(fp)), Pow10(nf))

parseFloat(t) == Let(SkipWs(t), StrDecimalLiteral)

(***************************************************************************)
(* The DOM (the tree the XML parser builds)                                *)
(***************************************************************************)
NoAttrs == [a \in {} |-> <<>>]

Elem(tag, attrs, kids, text) ==
  [tag |-> tag, attrs |-> attrs, kids |-> kids, text |-> text]

\* A leaf element <tag>text</tag>.
Leaf(tag, text) == Elem(tag, NoAttrs, <<>>, text)

\* What querySelector returns when nothing matches (null), and what
\* elements[0] is for an empty NodeList (undefined): both falsy.
NoElem == Elem("", NoAttrs, <<>>, <<>>)

\* A thrown exception, as the outcome of an expression.
Exception == [k |-> "exception", n |-> 0, d |-> 1, s |-> <<>>]

\* An input string that is not well-formed XML.
Malformed == Elem("#malformed", NoAttrs, <<>>, <<>>)

\* The document DOMParser.parseFromString returns for such a string.
ParserErrorDocument == Elem("#document", NoAttrs, <<Leaf("parsererror", <<>>)>>, <<>>)

\* parseXml: the browser's DOMParser reports a parse error inside the
\* document it returns, jsdom throws.
parseXml(xml, hasDOMParser) ==
  IF xml = Malformed
  THEN IF hasDOMParser THEN ParserErrorDocument ELSE NoElem
  ELSE xml

\* parseXml threw.
parseXmlThrew(xml, hasDOMParser) == xml = Malformed /\ ~hasDOMParser

\* The descendants of e in document order.
RECURSIVE Descendants(_)
Descendants(e) ==
  LET F[i \in 0..Len(e.kids)] ==
        IF i = 0 THEN <<>>
        ELSE F[i - 1] \o <<e.kids[i]>> \o Descendants(e.kids[i])
  IN F[Len(e.kids)]

HasTag(e, needle) == e.tag = needle

\* parent.querySelectorAll(needle), needle a tag name
querySelectorAll(parent, needle) ==
  SelectSeq(Descendants(parent), LAMBDA e : HasTag(e, needle))

\* parent.querySelector(needle)
FirstOf(all) == IF all = <<>> THEN NoElem ELSE all[1]

querySelector(parent, needle) == Let(querySelectorAll(parent, needle), FirstOf)

\* e.getAttribute(name)
getAttribute(e, name) ==
  IF name \in DOMAIN e.attrs THEN Str(e.attrs[name]) ELSE Null

\* e.innerHTML of an element that holds text only
innerHTML(e) == Str(e.text)

(***************************************************************************)
(* Field extraction                                                        *)
(***************************************************************************)
getElementValue(parent, needle) ==
  LET elem == querySelector(parent, needle)
  IN IF elem # NoElem THEN innerHTML(elem) ELSE Null

\* The last element of parent.children whose tagName is needle, or dflt.
LastDirectChild(parent, needle, dflt) ==
  LET direct == SelectSeq(parent.kids, LAMBDA e : HasTag(e, needle))
  IN IF direct = <<>> THEN dflt ELSE direct[Len(direct)]

queryDirectSelector(parent, needle) ==
  Let(querySelectorAll(parent, needle), LAMBDA elements :
    IF Len(elements) > 1
    THEN LastDirectChild(parent, needle, FirstOf(elements))
    ELSE FirstOf(elements))

(***************************************************************************)
(* Metadata, author, link                                                  *)
(***************************************************************************)
Empty == Str(<<>>)

DefaultLink == [href |-> Empty, text |-> Empty, type |-> Empty]

DefaultEmail == [id |-> Empty, domain |-> Empty]

DefaultAuthor == [name |-> Empty, email |-> DefaultEmail, link |-> DefaultLink]

DefaultMetadata ==
  [name |-> Empty, desc |-> Empty, time |-> Empty,
   author |-> DefaultAuthor, link |-> DefaultLink]

\* The Link built from a link element, or the default when there is none.
linkRecord(linkElem) ==
  IF linkElem # NoElem
  THEN [href |-> Or(getAttribute(linkElem, "href"), Empty),
        text |-> getElementValue(linkElem, "text"),
        type |-> getElementValue(linkElem, "type")]
  ELSE DefaultLink

linkOf(linkElem) == Let(linkElem, linkRecord)

emailRecord(authorEmailElem) ==
  IF authorEmailElem # NoElem
  THEN [id |-> Or(getAttribute(authorEmailElem, "id"), Empty),
        domain |-> Or(getAttribute(authorEmailElem, "domain"), Empty)]
  ELSE DefaultEmail

emailOf(authorEmailElem) == Let(authorEmailElem, emailRecord)

authorRecord(authorElem) ==
  IF authorElem = NoElem THEN DefaultAuthor
  ELSE [name |-> getElementValue(authorElem, "name"),
        email |-> emailOf(querySelector(authorElem, "email")),
        link |-> linkOf(querySelector(authorElem, "link"))]

parseAuthor(authorElem) == Let(authorElem, authorRecord)

metadataRecord(metadata) ==
  IF metadata = NoElem THEN DefaultMetadata
  ELSE [name |-> getElementValue(metadata, "name"),
        desc |-> getElementValue(metadata, "desc"),
        time |-> getElementValue(metadata, "time"),
        author |-> parseAuthor(querySelector(metadata, "author")),
        link |-> linkOf(queryDirectSelector(metadata, "link"))]

parseMetadata(metadata) == Let(metadata, metadataRecord)

(***************************************************************************)
(* Points                                                                  *)
(***************************************************************************)
InvalidDate == [k |-> "InvalidDate", n |-> 0, d |-> 1, s |-> <<>>]

\* A text of the form YYYY, the shortest ISO 8601 date.
IsYear(t) == Len(t) = 4 /\ \A i \in 1..4 : t[i] \in Digits

\* new Date(time), were it to throw for a text that is no date.
newDateThrowing(time) ==
  IF IsYear(time.s)
  THEN [k |-> "Date", n |-> DigitsVal(time.s), d |-> 1, s |-> <<>>]
  ELSE Exception

\* new Date(time) for a string: the Date of an ISO 8601 text (the model's
\* time texts carry the year-only form), and the Invalid Date, not an
\* exception, for a text that is no date.
newDate(time) ==
  IF IsYear(time.s)
  THEN [k |-> "Date", n |-> DigitsVal(time.s), d |-> 1, s |-> <<>>]
  ELSE InvalidDate

\* !time ? null : new Date(time)
timeOf(time) == IF Falsy(time) THEN Null ELSE newDate(time)

\* The elevation without the isNaN test.
eleOfNoCheck(v) == v

\* isNaN(v) ? null : v
eleOf(v) == IF isNaN(v) THEN Null ELSE v

\* The body of the wpt loop.
parseWpt(wpt) ==
  LET ele == parseFloat(Or(getElementValue(wpt, "ele"), Str(<<"0">>)).s)
      time == getElementValue(wpt, "time")
  IN [name |-> getElementValue(wpt, "name"),
      sym |-> getElementValue(wpt, "sym"),
      lat |-> parseFloat(Or(getAttribute(wpt, "lat"), Empty).s),
      lon |-> parseFloat(Or(getAttribute(wpt, "lon"), Empty).s),
      ele |-> eleOf(ele),
      cmt |-> getElementValue(wpt, "cmt"),
      desc |-> getElementValue(wpt, "desc"),
      time |-> timeOf(time)]

\* The body of the rtept loop with the fallback "" of the wpt loop.
parseRteptNoFallback(rtept) ==
  [lat |-> parseFloat(Or(getAttribute(rtept, "lat"), Empty).s),
   lon |-> parseFloat(Or(getAttribute(rtept, "lon"), Empty).s),
   ele |-> eleOf(parseFloat(Or(getElementValue(rtept, "ele"), Str(<<"0">>)).s)),
   time |-> timeOf(getElementValue(rtept, "time"))]

\* The body of the rtept loop.
parseRtept(rtept) ==
  LET floatValue == parseFloat(Or(getElementValue(rtept, "ele"), Str(<<"0">>)).s)
      time == getElementValue(rtept, "time")
  IN [lat |-> parseFloat(Or(getAttribute(rtept, "lat"), Str(<<"0">>)).s),
      lon |-> parseFloat(Or(getAttribute(rtept, "lon"), Str(<<"0">>)).s),
      ele |-> eleOf(floatValue),
      time |-> timeOf(time)]

\* The body of the trkpt loop.
parseTrkpt(trkpt) ==
  LET floatValue == parseFloat(Or(getElementValue(trkpt, "ele"), Str(<<"0">>)).s)
      time == getElementValue(trkpt, "time")
  IN [lat |-> parseFloat(Or(getAttribute(trkpt, "lat"), Str(<<"0">>)).s),
      lon |-> parseFloat(Or(getAttribute(trkpt, "lon"), Str(<<"0">>)).s),
      ele |-> eleOf(floatValue),
      time |-> timeOf(time)]

\* f applied to every element of a sequence, in order (for ... of, push).
MapSeq(f(_), xs) == Let(xs, LAMBDA v : [i \in 1..Len(v) |-> f(v[i])])

(***************************************************************************)
(* Geometry                                                                *)
(***************************************************************************)
\* 6371000 * PI / 180 to the metre: the length of one degree of great
\* circle on the sphere of calcDistanceBetween.
MetresPerDegree == 111195

Deg(i) == Num(i, 1)

\* calcDistanceBetween.  The haversine formula gives the great-circle
\* distance, which is a rational number of degrees of arc in the cases the
\* model's documents produce: both points on one meridian (|lat2 - lat1|),
\* on opposite meridians (180 - |lat1 + lat2|, over the pole), or both on
\* the equator (|lon2 - lon1|, at most 180).  A NaN coordinate gives NaN.
calcDistanceBetween(wpt1, wpt2) ==
  LET dLon == MathAbs(Sub(wpt2.lon, wpt1.lon))
      arc == CASE dLon = Zero -> MathAbs(Sub(wpt2.lat, wpt1.lat))
               [] dLon = Deg(180) -> Sub(Deg(180), MathAbs(Add(wpt1.lat, wpt2.lat)))
               [] wpt1.lat = Zero /\ wpt2.lat = Zero /\ Lt(dLon, Deg(180)) -> dLon
  IN IF \E c \in {wpt1.lat, wpt1.lon, wpt2.lat, wpt2.lon} : isNaN(c)
     THEN NaN
     ELSE Mul(Deg(MetresPerDegree), arc)

\* The length of a JavaScript array held as a function of its keys: one
\* more than its largest index (a negative key is a property, not an index).
ArrayLength(a) ==
  LET idx == {i \in DOMAIN a : i >= 0}
  IN IF idx = {} THEN 0 ELSE 1 + CHOOSE m \in idx : \A i \in idx : i <= m

\* calcRouteDistance without its last assignment, to cumul[points.length - 1].
calcRouteDistanceNoLast(points) ==
  LET n == Len(points)
      T[j \in 0..(IF n = 0 THEN 0 ELSE n - 1)] ==
        IF j = 0 THEN Zero
        ELSE Add(T[j - 1], calcDistanceBetween(points[j], points[j + 1]))
  IN [total |-> T[IF n = 0 THEN 0 ELSE n - 1],
      cumul |-> [i \in 0..(n - 2) |-> T[i + 1]]]

\* calcRouteDistance.  points is a sequence (points[i] of the code is
\* points[i + 1] here); cumul keeps the code's keys, from 0.
calcRouteDistance(points) ==
  LET n == Len(points)
      \* totalDistance after the iterations 0 .. j - 1 of the loop
      T[j \in 0..(IF n = 0 THEN 0 ELSE n - 1)] ==
        IF j = 0 THEN Zero
        ELSE Add(T[j - 1], calcDistanceBetween(points[j], points[j + 1]))
      totalDistance == T[IF n = 0 THEN 0 ELSE n - 1]
  IN [total |-> totalDistance,
      cumul |-> [i \in (0..(n - 2)) \cup {n - 1} |->
                  IF i < n - 1 THEN T[i + 1] ELSE totalDistance]]

\* calcElevationStats with the pairs that hold a null elevation left out of
\* the deltas.
calcElevationStatsSkipNull(points) ==
  LET n == Len(points)
      diff(i) == IF points[i + 1].ele = Null \/ points[i].ele = Null THEN Zero
                 ELSE Sub(points[i + 1].ele, points[i].ele)
      dm[i \in 0..(IF n = 0 THEN 0 ELSE n - 1)] ==
        IF i = 0 THEN Zero
        ELSE IF Lt(diff(i), Zero) THEN Add(dm[i - 1], diff(i)) ELSE dm[i - 1]
      dp[i \in 0..(IF n = 0 THEN 0 ELSE n - 1)] ==
        IF i = 0 THEN Zero
        ELSE IF Lt(Zero, diff(i)) THEN Add(dp[i - 1], diff(i)) ELSE dp[i - 1]
      last == IF n = 0 THEN 0 ELSE n - 1
      withEle == SelectSeq(points, LAMBDA pt : pt.ele # Null)
      elevation == [i \in 1..Len(withEle) |-> Or(withEle[i].ele, Zero)]
      S[i \in 0..Len(elevation)] ==
        IF i = 0 THEN Zero ELSE Add(S[i - 1], elevation[i])
      sum == S[Len(elevation)]
  IN [max |-> Or(MathMax(elevation), Null),
      min |-> Or(MathMin(elevation), Null),
      pos |-> Or(MathAbs(dp[last]), Null),
      neg |-> Or(MathAbs(dm[last]), Null),
      avg |-> Or(Div(sum, Deg(Len(elevation))), Null)]

\* calcElevationStats
calcElevationStats(points) ==
  LET n == Len(points)
      diff(i) == Sub(Or(points[i + 1].ele, Zero), Or(points[i].ele, Zero))
      dm[i \in 0..(IF n = 0 THEN 0 ELSE n - 1)] ==
        IF i = 0 THEN Zero
        ELSE IF Lt(diff(i), Zero) THEN Add(dm[i - 1], diff(i)) ELSE dm[i - 1]
      dp[i \in 0..(IF n = 0 THEN 0 ELSE n - 1)] ==
        IF i = 0 THEN Zero
        ELSE IF Lt(Zero, diff(i)) THEN Add(dp[i - 1], diff(i)) ELSE dp[i - 1]
      last == IF n = 0 THEN 0 ELSE n - 1
      withEle == SelectSeq(points, LAMBDA pt : pt.ele # Null)
      elevation == [i \in 1..Len(withEle) |-> Or(withEle[i].ele, Zero)]
      S[i \in 0..Len(elevation)] ==
        IF i = 0 THEN Zero ELSE Add(S[i - 1], elevation[i])
      sum == S[Len(elevation)]
  IN [max |-> Or(MathMax(elevation), Null),
      min |-> Or(MathMin(elevation), Null),
      pos |-> Or(MathAbs(dp[last]), Null),
      neg |-> Or(MathAbs(dm[last]), Null),
      avg |-> Or(Div(sum, Deg(Len(elevation))), Null)]

\* calcSlope with its loop started at i = 1.
calcSlopeFromOne(points, cumul) ==
  [j \in 1..(IF Len(points) <= 1 THEN 0 ELSE Len(points) - 2) |->
    LET i == j
        elevationDiff == Sub(Or(points[i + 2].ele, Zero), Or(points[i + 1].ele, Zero))
    IN Div(Mul(elevationDiff, Deg(100)), Sub(cumul[i + 1], cumul[i]))]

\* calcSlope dividing by the length of the segment from point to nextPoint.
calcSlopeBySegment(points, cumul) ==
  [j \in 1..(IF Len(points) = 0 THEN 0 ELSE Len(points) - 1) |->
    LET i == j - 1
        elevationDiff == Sub(Or(points[i + 2].ele, Zero), Or(points[i + 1].ele, Zero))
        distance == IF i = 0 THEN cumul[0] ELSE Sub(cumul[i], cumul[i - 1])
    IN Div(Mul(elevationDiff, Deg(100)), distance)]

\* calcSlope: slopes[i + 1] here is slopes[i] of the code.
calcSlope(points, cumul) ==
  [j \in 1..(IF Len(points) = 0 THEN 0 ELSE Len(points) - 1) |->
    LET i == j - 1
        point == points[i + 1]
        nextPoint == points[i + 2]
        elevationDiff == Sub(Or(nextPoint.ele, Zero), Or(point.ele, Zero))
        distance == Sub(cumul[i + 1], cumul[i])
    IN Div(Mul(elevationDiff, Deg(100)), distance)]

(***************************************************************************)
(* Routes and tracks                                                       *)
(***************************************************************************)
\* type ? type.innerHTML : null
typeOf(type) == IF type # NoElem THEN innerHTML(type) ELSE Null

\* The body of the rte loop.
routeOf(rte, type, link, points) ==
  Let(calcRouteDistance(points), LAMBDA distance :
     [name |-> getElementValue(rte, "name"),
      cmt |-> getElementValue(rte, "cmt"),
      desc |-> getElementValue(rte, "desc"),
      src |-> getElementValue(rte, "src"),
      number |-> getElementValue(rte, "number"),
      type |-> typeOf(type),
      link |-> link,
      points |-> points,
      distance |-> distance,
      elevation |-> calcElevationStats(points),
      slopes |-> calcSlope(points, distance.cumul)])

parseRte(rte) ==
  Let(MapSeq(parseRtept, querySelectorAll(rte, "rtept")), LAMBDA points :
    routeOf(rte, queryDirectSelector(rte, "type"),
            linkOf(querySelector(rte, "link")), points))

\* The body of the trk loop.
trackOf(trk, type, linkElem, points) ==
  Let(calcRouteDistance(points), LAMBDA distance :
     [name |-> getElementValue(trk, "name"),
      cmt |-> getElementValue(trk, "cmt"),
      desc |-> getElementValue(trk, "desc"),
      src |-> getElementValue(trk, "src"),
      number |-> getElementValue(trk, "number"),
      type |-> typeOf(type),
      link |-> linkOf(linkElem),
      distance |-> distance,
      elevation |-> calcElevationStats(points),
      slopes |-> calcSlope(points, distance.cumul),
      points |-> points])

parseTrk(trk) ==
  Let(MapSeq(parseTrkpt, querySelectorAll(trk, "trkpt")), LAMBDA points :
    trackOf(trk, queryDirectSelector(trk, "type"), querySelector(trk, "link"), points))

(***************************************************************************)
(* GeoJSON                                                                 *)
(***************************************************************************)
\* The triplet with latitude and longitude exchanged.
coordinatesLatLon(pt) == <<pt.lat, pt.lon, Or(pt.ele, Zero)>>

\* [pt.lon, pt.lat, pt.ele || 0]
coordinatesOf(pt) == <<pt.lon, pt.lat, Or(pt.ele, Zero)>>

\* The LineString feature of a track or of a route.
lineStringFeature(track) ==
  [type |-> "Feature",
   geometry |-> [type |-> "LineString",
                 coordinates |-> MapSeq(coordinatesOf, track.points)],
   properties |-> [name |-> track.name, cmt |-> track.cmt, desc |-> track.desc,
                   src |-> track.src, number |-> track.number,
                   link |-> track.link, type |-> track.type]]

\* The Point feature of a waypoint.
pointFeature(pt) ==
  [type |-> "Feature",
   geometry |-> [type |-> "Point", coordinates |-> coordinatesOf(pt)],
   properties |-> [name |-> pt.name, sym |-> pt.sym, cmt |-> pt.cmt,
                   desc |-> pt.desc]]

\* The features with the loop over the routes run first.
featuresRoutesFirst(this) ==
  MapSeq(lineStringFeature, this.routes)
    \o MapSeq(lineStringFeature, this.tracks)
    \o MapSeq(pointFeature, this.waypoints)

\* The features in the order of the three loops.
featuresOf(this) ==
  MapSeq(lineStringFeature, this.tracks)
    \o MapSeq(lineStringFeature, this.routes)
    \o MapSeq(pointFeature, this.waypoints)

\* The value toGeoJSON returns for the parser `this`.
toGeoJSON(this) ==
  [type |-> "FeatureCollection",
   features |-> featuresOf(this),
   properties |-> [name |-> this.metadata.name, desc |-> this.metadata.desc,
                   time |-> this.metadata.time, author |-> this.metadata.author,
                   link |-> this.metadata.link]]

\* The parser after a toGeoJSON that wrote pt.ele || 0 back to the waypoints.
thisWithElevationDefaulted(this) ==
  [this EXCEPT !.waypoints =
     [i \in DOMAIN this.waypoints |->
        [this.waypoints[i] EXCEPT !.ele = Or(this.waypoints[i].ele, Zero)]]]

\* The parser after toGeoJSON has run: it assigns to no field of `this`
\* and to no object reachable from one.
thisAfterToGeoJSON(this) == this

(***************************************************************************)
(* The parser as a state machine                                           *)
(***************************************************************************)
VARIABLES
  gpxstring,   \* the argument of the constructor
  window,      \* TRUE when a global window with a DOMParser exists
  pc,          \* "new", "constructed", or "thrown" (the constructor threw)
  xmlSource,   \* the fields of the parser
  metadata,
  waypoints,
  routes,
  tracks,
  geoJSON      \* what the last call of toGeoJSON returned, NoGeoJSON before

vars == <<gpxstring, window, pc, xmlSource, metadata, waypoints, routes, tracks, geoJSON>>

NoGeoJSON == [type |-> "", features |-> <<>>, properties |-> Null]

\* The parser's model as one value.
This ==
  [metadata |-> metadata, waypoints |-> waypoints, routes |-> routes,
   tracks |-> tracks]

\* What the constructor builds from the document xml.
constructed(xml) ==
  [metadata |-> parseMetadata(querySelector(xml, "metadata")),
   waypoints |-> MapSeq(parseWpt, querySelectorAll(xml, "wpt")),
   routes |-> MapSeq(parseRte, querySelectorAll(xml, "rte")),
   tracks |-> MapSeq(parseTrk, querySelectorAll(xml, "trk"))]

\* An exception was raised while the points of m were built.
pointThrew(m) ==
  \/ \E i \in DOMAIN m.waypoints : m.waypoints[i].time = Exception
  \/ \E i \in DOMAIN m.routes : \E j \in DOMAIN m.routes[i].points :
       m.routes[i].points[j].time = Exception
  \/ \E i \in DOMAIN m.tracks : \E j \in DOMAIN m.tracks[i].points :
       m.tracks[i].points[j].time = Exception

\* new GPXParser(gpxstring): nothing in the constructor catches, so an
\* exception of parseXml or of a loop body ends it.
Construct ==
  /\ pc = "new"
  /\ \E xml \in {parseXml(gpxstring, window)} : \E m \in {constructed(xml)} :
        IF parseXmlThrew(gpxstring, window) \/ pointThrew(m)
        THEN /\ pc' = "thrown"
             /\ UNCHANGED <<xmlSource, metadata, waypoints, routes, tracks>>
        ELSE /\ pc' = "constructed"
             /\ xmlSource' = xml
             /\ metadata' = m.metadata
             /\ waypoints' = m.waypoints
             /\ routes' = m.routes
             /\ tracks' = m.tracks
  /\ UNCHANGED <<gpxstring, window, geoJSON>>

\* parser.toGeoJSON()
ToGeoJSON ==
  /\ pc = "constructed"
  /\ geoJSON' = toGeoJSON(This)
  /\ LET after == thisAfterToGeoJSON(This)
     IN /\ metadata' = after.metadata
        /\ waypoints' = after.waypoints
        /\ routes' = after.routes
        /\ tracks' = after.tracks
  /\ UNCHANGED <<gpxstring, window, pc, xmlSource>>

Next == Construct \/ ToGeoJSON

\* The state before the constructor runs, for an input drawn from docs.
InitWith(docs, windows) ==
  /\ gpxstring \in docs
  /\ window \in windows
  /\ pc = "new"
  /\ xmlSource = NoElem
  /\ metadata = Null
  /\ waypoints = <<>>
  /\ routes = <<>>
  /\ tracks = <<>>
  /\ geoJSON = NoGeoJSON

(***************************************************************************)
(* Input documents                                                         *)
(***************************************************************************)
\* An optional text: None, or Some(t).
None == <<>>
Some(t) == <<t>>

\* <tag>t</tag> when the text is given, nothing otherwise.
OptLeaf(tag, o) == IF o = None THEN <<>> ELSE <<Leaf(tag, o[1])>>

\* The attributes lat and lon that are given.
LatLon(lat, lon) ==
  [a \in (IF lat = None THEN {} ELSE {"lat"}) \cup (IF lon = None THEN {} ELSE {"lon"})
     |-> IF a = "lat" THEN lat[1] ELSE lon[1]]

\* A rtept or trkpt element.
PtElem(tag, lat, lon, ele, time) ==
  Elem(tag, LatLon(lat, lon), OptLeaf("ele", ele) \o OptLeaf("time", time), <<>>)

\* A wpt element.
WptElem(lat, lon, ele, time, name, sym) ==
  Elem("wpt", LatLon(lat, lon),
       OptLeaf("ele", ele) \o OptLeaf("time", time) \o OptLeaf("name", name)
         \o <<Leaf("cmt", <<"c">>), Leaf("desc", <<"d">>)>> \o OptLeaf("sym", sym),
       <<>>)

\* A link element with an href and the given text and type children.
LinkElem(href, text, type) ==
  Elem("link", [a \in {"href"} |-> href], OptLeaf("text", text) \o OptLeaf("type", type), <<>>)

\* The children of a rte or trk before its points; link is a sequence of
\* zero or one link elements.
Header(name, link, type) ==
  <<Leaf("name", name), Leaf("cmt", <<"c">>), Leaf("desc", <<"d">>),
    Leaf("src", <<"s">>)>> \o link \o <<Leaf("number", <<"1">>)>> \o OptLeaf("type", type)

RteElem(name, link, type, rtepts) ==
  Elem("rte", NoAttrs, Header(name, link, type) \o rtepts, <<>>)

\* A trk holds its points in a trkseg.
TrkElem(name, link, type, trkpts) ==
  Elem("trk", NoAttrs,
       Header(name, link, type) \o <<Elem("trkseg", NoAttrs, trkpts, <<>>)>>, <<>>)

\* A document with the root element gpx.
Document(kids) ==
  Elem("#document", NoAttrs, <<Elem("gpx", NoAttrs, kids, <<>>)>>, <<>>)

\* The sequences over S of length at most n.
SeqUpTo(S, n) == UNION {[1..k -> S] : k \in 0..n}

MaxWpts == 2
MaxRtes == 2
MaxTrks == 2

WebLink == LinkElem(<<"h">>, Some(<<"t">>), Some(<<"W">>))

AuthorElem ==
  Elem("author", NoAttrs,
       <<Leaf("name", <<"A">>),
         Elem("email", [a \in {"id", "domain"} |-> <<"e">>], <<>>, <<>>),
         LinkElem(<<"a">>, Some(<<"u">>), None)>>, <<>>)

Year == <<"2", "0", "2", "0">>

\* No metadata, or a full one.
SomeMetadata ==
  { <<>>,
    <<Elem("metadata", NoAttrs,
           <<Leaf("name", <<"N">>), Leaf("desc", <<"D">>), AuthorElem, WebLink,
             Leaf("time", Year)>>, <<>>)>> }

SomeWpts ==
  { WptElem(Some(<<"1">>), Some(<<"2">>), Some(<<"5">>), Some(Year), Some(<<"A">>), Some(<<"S">>)),
    WptElem(Some(<<"x">>), None, Some(<<"x">>), Some(<<"x">>), Some(<<"B">>), None) }

SomeRtes ==
  { RteElem(<<"R">>, <<WebLink>>, Some(<<"M">>),
            << PtElem("rtept", Some(<<"1">>), Some(<<"0">>), Some(<<"5">>), Some(Year)),
               PtElem("rtept", Some(<<"3">>), Some(<<"1", "8", "0">>), Some(<<"x">>), None),
               PtElem("rtept", Some(<<"2">>), Some(<<"0">>), None, Some(<<"x">>)) >>),
    RteElem(<<"Q">>, <<>>, None, <<>>) }

SomeTrks ==
  { TrkElem(<<"T">>, <<WebLink>>, None,
            << PtElem("trkpt", Some(<<"4">>), Some(<<"0">>), Some(<<"x">>), Some(<<"x">>)),
               PtElem("trkpt", None, Some(<<"x">>), Some(<<"-", "5">>), Some(Year)) >>),
    TrkElem(<<"U">>, <<>>, Some(<<"M">>),
            << PtElem("trkpt", Some(<<"1">>), Some(<<"0">>), Some(<<"0">>), None) >>) }

\* Whole documents: metadata, then waypoints, routes and tracks.
Docs ==
  { Document(m \o w \o r \o t) :
      m \in SomeMetadata, w \in SeqUpTo(SomeWpts, MaxWpts),
      r \in SeqUpTo(SomeRtes, MaxRtes), t \in SeqUpTo(SomeTrks, MaxTrks) }
    \cup {Malformed}

\* Under jsdom, as the test suite runs the parser.
Init == InitWith(Docs, {FALSE})

Spec == Init /\ [][Next]_vars

\* Documents with one point: a wpt, a rtept in a rte, or a trkpt in a trk,
\* over every combination of attribute and child texts.
LatTexts == {None, Some(<<>>), Some(<<"x">>), Some(<<"1">>)}
LonTexts == {None, Some(<<>>), Some(<<"x">>), Some(<<"2">>)}
EleTexts == {None, Some(<<>>), Some(<<"x">>), Some(<<"0">>), Some(<<"5">>), Some(<<"7", "x">>)}
TimeTexts == {None, Some(<<>>), Some(<<"x">>), Some(Year)}

PointDocs ==
  UNION { { Document(<<WptElem(lat, lon, ele, time, Some(<<"A">>), None)>>),
            Document(<<RteElem(<<"R">>, <<>>, None, <<PtElem("rtept", lat, lon, ele, time)>>)>>),
            Document(<<TrkElem(<<"T">>, <<>>, None, <<PtElem("trkpt", lat, lon, ele, time)>>)>>) } :
          lat \in LatTexts, lon \in LonTexts, ele \in EleTexts, time \in TimeTexts }
    \cup {Malformed}

InitPoint == InitWith(PointDocs, BOOLEAN)

SpecPoint == InitPoint /\ [][Next]_vars

\* Documents with one rte or one trk of at most MaxPts points, drawn from
\* points that differ in position (one with a NaN latitude) and elevation.
MaxPts == 3

GeomPts(tag) ==
  { PtElem(tag, Some(<<"1">>), Some(<<"0">>), Some(<<"5">>), None),
    PtElem(tag, Some(<<"1">>), Some(<<"0">>), Some(<<"0">>), None),
    PtElem(tag, Some(<<"1">>), Some(<<"0">>), Some(<<"x">>), None),
    PtElem(tag, Some(<<"1">>), Some(<<"0">>), Some(<<"-", "5">>), None),
    PtElem(tag, Some(<<"3">>), Some(<<"0">>), Some(<<"5">>), None),
    PtElem(tag, Some(<<"3">>), Some(<<"0">>), Some(<<"0">>), None),
    PtElem(tag, Some(<<"1">>), Some(<<"1", "8", "0">>), Some(<<"5">>), None),
    PtElem(tag, Some(<<"1">>), Some(<<"1", "8", "0">>), Some(<<"-", "5">>), None),
    PtElem(tag, Some(<<"x">>), Some(<<"0">>), Some(<<"5">>), None) }

GeomDocs ==
  { Document(<<RteElem(<<"R">>, <<>>, None, pts)>>) : pts \in SeqUpTo(GeomPts("rtept"), MaxPts) }
    \cup
  { Document(<<TrkElem(<<"T">>, <<>>, None, pts)>>) : pts \in SeqUpTo(GeomPts("trkpt"), MaxPts) }

InitGeom == InitWith(GeomDocs, {FALSE})

SpecGeom == InitGeom /\ [][Next]_vars

\* Documents that hold a metadata element only, over the ways its own link,
\* its author, and the author's email and link can be present or absent.
MetaLinks ==
  { <<>>, <<WebLink>>, <<LinkElem(<<"h">>, None, None)>>,
    <<Elem("link", NoAttrs, <<>>, <<>>)>> }

AuthorLinks ==
  { <<>>, <<LinkElem(<<"a">>, Some(<<"u">>), Some(<<"V">>))>>,
    <<LinkElem(<<"a">>, None, None)>> }

AuthorEmails ==
  { <<>>, <<Elem("email", [a \in {"id", "domain"} |-> <<"e">>], <<>>, <<>>)>>,
    <<Elem("email", [a \in {"id"} |-> <<"e">>], <<>>, <<>>)>> }

Authors ==
  { <<>> } \cup
  { <<Elem("author", NoAttrs, OptLeaf("name", name) \o email \o link, <<>>)>> :
      name \in {None, Some(<<"A">>)}, email \in AuthorEmails, link \in AuthorLinks }

MetaDocs ==
  { Document(<<>>) } \cup
  UNION { { Document(<<Elem("metadata", NoAttrs,
                          OptLeaf("name", name) \o author \o link \o <<Leaf("time", Year)>>, <<>>)>>),
            Document(<<Elem("metadata", NoAttrs,
                          OptLeaf("name", name) \o link \o author, <<>>)>>) } :
          name \in {None, Some(<<"N">>)}, author \in Authors, link \in MetaLinks }

InitMeta == InitWith(MetaDocs, {FALSE})

SpecMeta == InitMeta /\ [][Next]_vars

(***************************************************************************)
(* Properties                                                              *)
(***************************************************************************)
\* The routes and the tracks of the parser.
RouteLikes == {routes[i] : i \in DOMAIN routes} \cup {tracks[i] : i \in DOMAIN tracks}

\* The keys of a JavaScript array that are indices.
Indices(a) == {i \in DOMAIN a : i >= 0}

\* C1: for every route and track with n points, distance.cumul has exactly
\* n entries (indices 0 .. n-1); when n >= 1 its last entry is
\* distance.total; for n = 1 the total and the single entry are 0, and for
\* n = 0 the total is 0 and cumul has no entry.
C1_CumulLength ==
  pc = "constructed" =>
    \A r \in RouteLikes :
      LET n == Len(r.points)
          cumul == r.distance.cumul
      IN /\ ArrayLength(cumul) = n
         /\ Indices(cumul) = 0..(n - 1)
         /\ n >= 1 => cumul[n - 1] = r.distance.total
         /\ n = 1 => r.distance.total = Zero /\ cumul[0] = Zero
         /\ n = 0 => r.distance.total = Zero

\* A route or track of three points with a positive total distance.
C1_Witness ==
  /\ pc = "constructed"
  /\ \E r \in RouteLikes :
       /\ Len(r.points) = 3
       /\ Lt(Zero, r.distance.total)
       /\ r.distance.cumul[0] # r.distance.cumul[1]
       /\ r.distance.cumul[2] = r.distance.total

HasElevation(r) == \E i \in DOMAIN r.points : r.points[i].ele # Null

\* C2: for every route and track, elevation.max, elevation.min and
\* elevation.avg are each null if and only if no point of the sequence has
\* a non-null elevation.
C2_NullIffNoElevation ==
  pc = "constructed" =>
    \A r \in RouteLikes :
      /\ (r.elevation.max = Null) <=> ~HasElevation(r)
      /\ (r.elevation.min = Null) <=> ~HasElevation(r)
      /\ (r.elevation.avg = Null) <=> ~HasElevation(r)

\* C9: for every route and track, slopes has exactly
\* max(points.length - 1, 0) entries.
C9_SlopesLength ==
  pc = "constructed" =>
    \A r \in RouteLikes :
      Len(r.slopes) = IF Len(r.points) >= 1 THEN Len(r.points) - 1 ELSE 0

\* A track of three points and two slopes.
C9_Witness ==
  /\ pc = "constructed"
  /\ \E i \in DOMAIN tracks : Len(tracks[i].points) = 3 /\ Len(tracks[i].slopes) = 2

\* The rte, trk and wpt elements of the parsed document, in document order.
Rtes == querySelectorAll(xmlSource, "rte")
Trks == querySelectorAll(xmlSource, "trk")
Wpts == querySelectorAll(xmlSource, "wpt")

\* Each route point, track point and waypoint with the element it was
\* parsed from, as <<element, point>>.
RoutePointPairs ==
  UNION { { <<querySelectorAll(Rtes[i], "rtept")[j], routes[i].points[j]>> :
              j \in DOMAIN routes[i].points } : i \in DOMAIN routes }

TrackPointPairs ==
  UNION { { <<querySelectorAll(Trks[i], "trkpt")[j], tracks[i].points[j]>> :
              j \in DOMAIN tracks[i].points } : i \in DOMAIN tracks }

WaypointPairs == { <<Wpts[i], waypoints[i]>> : i \in DOMAIN waypoints }

\* The text has no prefix that is a decimal number.
Unparsable(t) == isNaN(parseFloat(t))

Coordinate(pt, c) == IF c = "lat" THEN pt.lat ELSE pt.lon

EleChild(e) == querySelector(e, "ele")

\* C4 as claimed: for every waypoint, route point and track point, ele is
\* null when the point has no ele child and when the ele text cannot be
\* parsed as a number; otherwise ele is the parsed number.
C4_AbsentIsNull ==
  pc = "constructed" =>
    \A p \in WaypointPairs \cup RoutePointPairs \cup TrackPointPairs :
      IF EleChild(p[1]) = NoElem \/ Unparsable(EleChild(p[1]).text)
      THEN p[2].ele = Null
      ELSE p[2].ele = parseFloat(EleChild(p[1]).text)

\* C4 as amended: ele is 0 when the point has no ele child or the ele text
\* is empty, null when the non-empty ele text cannot be parsed as a number,
\* and the parsed number otherwise.
C4_AbsentIsZero ==
  pc = "constructed" =>
    \A p \in WaypointPairs \cup RoutePointPairs \cup TrackPointPairs :
      IF EleChild(p[1]) = NoElem \/ EleChild(p[1]).text = <<>>
      THEN p[2].ele = Zero
      ELSE IF Unparsable(EleChild(p[1]).text)
           THEN p[2].ele = Null
           ELSE p[2].ele = parseFloat(EleChild(p[1]).text)

\* A track point without an ele child, whose ele is 0.
C4_Witness ==
  /\ pc = "constructed"
  /\ \E p \in TrackPointPairs : EleChild(p[1]) = NoElem /\ p[2].ele = Zero

\* The wpt, rtept and trkpt elements of the input.
InputPoints ==
  LET all == Descendants(gpxstring)
  IN {all[i] : i \in {j \in DOMAIN all : all[j].tag \in {"wpt", "rtept", "trkpt"}}}

\* Some point of the input has a time child whose text is no timestamp.
HasUnparsableTime ==
  \E e \in InputPoints :
    querySelector(e, "time") # NoElem /\ ~IsYear(querySelector(e, "time").text)

\* The XML parser returned a document.
TreeBuilt == gpxstring # Malformed \/ window

MetadataElem == querySelector(xmlSource, "metadata")
MetadataAuthorElem == querySelector(MetadataElem, "author")

\* e has a child element, respectively a descendant, with the tag.
HasChild(e, tag) == \E i \in DOMAIN e.kids : e.kids[i].tag = tag
HasDescendant(e, tag) == querySelector(e, tag) # NoElem

\* C6: each level of the metadata parse (the metadata block, its author,
\* the metadata's own link, the author's link) receives the full default
\* record exactly when its own source element is absent; in particular a
\* metadata element without a link of its own yields the default link even
\* when its author has a link.
C6_DefaultsPerLevel ==
  pc = "constructed" =>
    /\ metadata = DefaultMetadata <=> MetadataElem = NoElem
    /\ metadata.link = DefaultLink
         <=> (MetadataElem = NoElem \/ ~HasChild(MetadataElem, "link"))
    /\ metadata.author = DefaultAuthor
         <=> (MetadataElem = NoElem \/ ~HasDescendant(MetadataElem, "author"))
    /\ metadata.author.link = DefaultLink
         <=> (MetadataElem = NoElem \/ ~HasDescendant(MetadataAuthorElem, "link"))

\* C7: toGeoJSON returns a FeatureCollection of t + r + w features: first
\* the LineString features of the t tracks in parse order, then those of
\* the r routes, then the Point features of the w waypoints.
C7_FeatureOrder ==
  geoJSON # NoGeoJSON =>
    LET f == geoJSON.features
        t == Len(tracks)
        r == Len(routes)
        w == Len(waypoints)
        IsLineOf(feature, track) ==
          /\ feature.type = "Feature"
          /\ feature.geometry.type = "LineString"
          /\ Len(feature.geometry.coordinates) = Len(track.points)
          /\ feature.properties =
               [name |-> track.name, cmt |-> track.cmt, desc |-> track.desc,
                src |-> track.src, number |-> track.number,
                link |-> track.link, type |-> track.type]
    IN /\ geoJSON.type = "FeatureCollection"
       /\ Len(f) = t + r + w
       /\ \A i \in 1..t : IsLineOf(f[i], tracks[i])
       /\ \A i \in 1..r : IsLineOf(f[t + i], routes[i])
       /\ \A i \in 1..w :
            /\ f[t + r + i].type = "Feature"
            /\ f[t + r + i].geometry.type = "Point"
            /\ f[t + r + i].properties =
                 [name |-> waypoints[i].name, sym |-> waypoints[i].sym,
                  cmt |-> waypoints[i].cmt, desc |-> waypoints[i].desc]

\* A projection of two different tracks, two different routes and two
\* different waypoints.
C7_Witness ==
  /\ geoJSON # NoGeoJSON
  /\ Len(tracks) = 2 /\ tracks[1].name # tracks[2].name
  /\ Len(routes) = 2 /\ routes[1].name # routes[2].name
  /\ Len(waypoints) = 2 /\ waypoints[1].name # waypoints[2].name
  /\ Len(geoJSON.features) = 6

Triplet(pt) == <<pt.lon, pt.lat, IF pt.ele = Null THEN Zero ELSE pt.ele>>

\* C10: in the projection every track and route feature has one triplet per
\* point of its sequence, in point order, and every triplet, of a
\* LineString and of a waypoint's Point alike, is [lon, lat, ele] of its
\* point with a null elevation replaced by 0.
C10_Coordinates ==
  geoJSON # NoGeoJSON =>
    LET f == geoJSON.features
        t == Len(tracks)
        r == Len(routes)
        LineOf(track) == [j \in 1..Len(track.points) |-> Triplet(track.points[j])]
    IN /\ \A i \in 1..t : f[i].geometry.coordinates = LineOf(tracks[i])
       /\ \A i \in 1..r : f[t + i].geometry.coordinates = LineOf(routes[i])
       /\ \A i \in 1..Len(waypoints) :
            f[t + r + i].geometry.coordinates = Triplet(waypoints[i])

\* A projection with a track of two points, the first of null elevation,
\* and a waypoint of null elevation.
C10_Witness ==
  /\ geoJSON # NoGeoJSON
  /\ \E i \in DOMAIN tracks :
       /\ Len(tracks[i].points) = 2
       /\ tracks[i].points[1].ele = Null
       /\ tracks[i].points[2].ele # Null
       /\ geoJSON.features[i].geometry.coordinates[1][3] = Zero
       /\ geoJSON.features[i].geometry.coordinates[1][1] # geoJSON.features[i].geometry.coordinates[1][2]
  /\ \E i \in DOMAIN waypoints : waypoints[i].ele = Null

\* The routes and tracks of at least two points.
Segmented == {r \in RouteLikes : Len(r.points) >= 2}

\* The elevation of point i (from 0) of r, a null elevation counted as 0.
EleOrZero(r, i) == Or(r.points[i + 1].ele, Zero)

\* The percentage grade of the segment from point i to point i + 1 of r.
Grade(r, i) ==
  Div(Mul(Sub(EleOrZero(r, i + 1), EleOrZero(r, i)), Deg(100)),
      calcDistanceBetween(r.points[i + 1], r.points[i + 2]))

\* C11: for every route and track with n >= 2 points and every i in
\* [0, n-2], slopes[i] is the percentage grade between the consecutive
\* points i and i+1: (ele[i+1] - ele[i]) * 100 divided by the distance
\* between point i and point i+1 (a null elevation counted as 0).
C11_SlopeIsGrade ==
  pc = "constructed" =>
    \A r \in Segmented :
      \A i \in 0..(Len(r.points) - 2) : r.slopes[i + 1] = Grade(r, i)

\* The elevation delta of the adjacent points i and i + 1 (from 0) of r.
Delta(r, i) == Sub(EleOrZero(r, i + 1), EleOrZero(r, i))

\* The sum of the deltas of r that keep(_) accepts.
SumOfDeltas(r, keep(_)) ==
  LET n == Len(r.points)
      S[k \in 0..(IF n = 0 THEN 0 ELSE n - 1)] ==
        IF k = 0 THEN Zero
        ELSE IF keep(Delta(r, k - 1)) THEN Add(S[k - 1], Delta(r, k - 1)) ELSE S[k - 1]
  IN S[IF n = 0 THEN 0 ELSE n - 1]

PositiveSum(r) == SumOfDeltas(r, LAMBDA d : Lt(Zero, d))
NegativeSum(r) == SumOfDeltas(r, LAMBDA d : Lt(d, Zero))

\* C12: calcElevationStats returns pos equal to the sum of the strictly
\* positive adjacent elevation deltas and neg equal to the absolute value of
\* the sum of the strictly negative adjacent deltas, a null elevation
\* counting as 0 in a delta; pos is null if and only if that positive sum
\* is exactly zero, and neg is null if and only if that negative sum is
\* exactly zero.
C12_PosNeg ==
  pc = "constructed" =>
    \A r \in RouteLikes :
      /\ (r.elevation.pos = Null) <=> (PositiveSum(r) = Zero)
      /\ (r.elevation.neg = Null) <=> (NegativeSum(r) = Zero)
      /\ r.elevation.pos # Null => r.elevation.pos = PositiveSum(r)
      /\ r.elevation.neg # Null => r.elevation.neg = MathAbs(NegativeSum(r))

\* A route or track that descends to a point without elevation and climbs
\* back: both sums come from deltas in which the null elevation counts as 0.
C12_Witness ==
  /\ pc = "constructed"
  /\ \E r \in RouteLikes :
       /\ Len(r.points) = 3
       /\ r.points[1].ele = Deg(5)
       /\ r.points[2].ele = Null
       /\ r.points[3].ele = Deg(5)
       /\ r.elevation.pos = Deg(5)
       /\ r.elevation.neg = Deg(5)

\* The texts of the type elements that are direct children of e.
DirectTypes(e) == {innerHTML(e.kids[i]) : i \in {j \in DOMAIN e.kids : e.kids[j].tag = "type"}}

\* The type of a route or track read from the direct children of e only.
TypeFromDirectChild(e, type) ==
  IF HasChild(e, "type") THEN type \in DirectTypes(e) ELSE type = Null

\* C13: the type field of a route or track is taken only from a type
\* element that is a direct child of that rte/trk: when the rte/trk has no
\* direct type child, its type is null even if a nested link element has a
\* type child, and the type of the nested link never appears as the route's
\* or track's type.
C13_TypeIsDirectChild ==
  pc = "constructed" =>
    /\ \A i \in DOMAIN routes : TypeFromDirectChild(Rtes[i], routes[i].type)
    /\ \A i \in DOMAIN tracks : TypeFromDirectChild(Trks[i], tracks[i].type)

\* r has a point whose latitude or longitude is NaN.
HasNaNPosition(r) ==
  \E i \in DOMAIN r.points : isNaN(r.points[i].lat) \/ isNaN(r.points[i].lon)

\* The divisor of the last slope of r: cumul[n-1] - cumul[n-2].
LastDivisor(r) ==
  Sub(r.distance.cumul[Len(r.points) - 1], r.distance.cumul[Len(r.points) - 2])

LastSlope(r) == r.slopes[Len(r.points) - 1]

=============================================================================
